---- MODULE Spec2Model ----
(***************************************************************************)
(* Model of the BM25 index of src/src/lib.rs: the inverted index, the      *)
(* per-document statistics, the running length total, and search with its  *)
(* bounded heap.                                                           *)
(*                                                                         *)
(* A text is a sequence of characters, a term is a non-empty sequence of   *)
(* non-blank characters.  An f64 score is represented in fixed point, in   *)
(* millionths, with the natural logarithm read from a table.               *)
(*                                                                         *)
(* Spec is the index under upsert, insert, delete and search.  SpecCalls   *)
(* keeps a clone of the index and the returned value for every call,       *)
(* SpecPresent adds insert for an id that is present, SpecTest indexes the *)
(* documents of the tests, SpecTwice searches with queries that repeat     *)
(* their terms, and SpecMain is the older Index of src/src/main.rs.        *)
(***************************************************************************)
EXTENDS Integers, Sequences, FiniteSets, TLC

\* The index fields, then what a caller holds: the last call made, the list the
\* last search returned, and a clone of the index taken ahead of an insert
\* (the empty index after any other call of Spec; SpecCalls and SpecPresent
\* clone ahead of every call, SpecMain keeps the caller's documents there).
VARIABLES inverted_index, doc_stats, total_doc_lengths, k, b,
          last, results, before

vars == <<inverted_index, doc_stats, total_doc_lengths, k, b, last, results, before>>

(* ------------------------------ bounds --------------------------------- *)
\* Texts and queries have at most MaxTextLen and MaxQueryLen characters, top_k
\* is at most MaxTopK; three doc ids and a one-letter alphabet are enough for
\* repeated terms, equal scores and a candidate beyond top_k.
MaxTextLen  == 3
MaxQueryLen == 2
MaxTopK     == 2
MaxTotal    == 3

Blank    == " "
Alphabet == {"a", Blank}
DocIds   == {0, 1, 2}

\* texts written with single blanks between their terms
SingleSpaced(t) ==
    /\ t # <<>> => t[1] # Blank /\ t[Len(t)] # Blank
    /\ \A i \in 1..(Len(t) - 1) : ~(t[i] = Blank /\ t[i + 1] = Blank)

SeqsUpTo(n) == {t \in UNION {[1..m -> Alphabet] : m \in 0..n} : SingleSpaced(t)}
Texts    == SeqsUpTo(MaxTextLen)
Queries  == SeqsUpTo(MaxQueryLen)
TopKs    == 0..MaxTopK

(* ------------------------- tokenize / stemmer --------------------------- *)
RECURSIVE SplitWs(_, _, _)
SplitWs(doc, i, cur) ==
    IF i > Len(doc)
    THEN IF cur = <<>> THEN <<>> ELSE <<cur>>
    ELSE IF doc[i] = Blank
         THEN IF cur = <<>> THEN SplitWs(doc, i + 1, <<>>)
                            ELSE <<cur>> \o SplitWs(doc, i + 1, <<>>)
         ELSE SplitWs(doc, i + 1, Append(cur, doc[i]))

\* split(' ') in place of split_whitespace: every blank ends a token, empty
\* tokens included
RECURSIVE SplitBlank(_, _, _)
SplitBlank(doc, i, cur) ==
    IF i > Len(doc) THEN <<cur>>
    ELSE IF doc[i] = Blank
         THEN <<cur>> \o SplitBlank(doc, i + 1, <<>>)
         ELSE SplitBlank(doc, i + 1, Append(cur, doc[i]))

tokenize_split_blank(doc) == SplitBlank(doc, 1, <<>>)

tokenize(doc) == SplitWs(doc, 1, <<>>)

stemmer(words) == words

(* ------------------------------ Index ----------------------------------- *)
EmptyMap == [x \in {} |-> 0]

new == [inverted_index    |-> EmptyMap,
        doc_stats         |-> EmptyMap,
        total_doc_lengths |-> 0,
        k                 |-> <<3, 2>>,
        b                 |-> <<3, 4>>]

\* postings that take a doc id once per distinct term of the document
RECURSIVE update_inverted_index_once(_, _, _)
update_inverted_index_once(inv, terms, doc_id) ==
    IF terms = <<>> THEN inv
    ELSE LET term == Head(terms)
             old  == IF term \in DOMAIN inv THEN inv[term] ELSE <<>>
             inv1 == [t \in DOMAIN inv \cup {term} |->
                         IF t = term
                         THEN IF old # <<>> /\ old[Len(old)] = doc_id
                              THEN old ELSE Append(old, doc_id)
                         ELSE inv[t]]
         IN  update_inverted_index_once(inv1, Tail(terms), doc_id)

RECURSIVE update_inverted_index(_, _, _)
update_inverted_index(inv, terms, doc_id) ==
    IF terms = <<>> THEN inv
    ELSE LET term == Head(terms)
             old  == IF term \in DOMAIN inv THEN inv[term] ELSE <<>>
             inv1 == [t \in DOMAIN inv \cup {term} |->
                         IF t = term THEN Append(old, doc_id) ELSE inv[t]]
         IN  update_inverted_index(inv1, Tail(terms), doc_id)

doc_frequency(self, term) ==
    IF term \in DOMAIN self.inverted_index
    THEN Len(self.inverted_index[term])
    ELSE 0

RECURSIVE term_frequency(_)
term_frequency(terms) ==
    IF terms = <<>> THEN EmptyMap
    ELSE LET n    == Len(terms)
             tf   == term_frequency(SubSeq(terms, 1, n - 1))
             term == terms[n]
             old  == IF term \in DOMAIN tf THEN tf[term] ELSE 0
         IN  [t \in DOMAIN tf \cup {term} |-> IF t = term THEN old + 1 ELSE tf[t]]

\* insert without line 72
insert_forgets_total(self, doc, doc_id) ==
    LET terms     == stemmer(tokenize(doc))
        num_terms == Len(terms)
        term_freq == term_frequency(terms)
        stats     == [doc_id |-> doc_id, doc_length |-> num_terms, term_freq |-> term_freq]
    IN  [self EXCEPT
           !.inverted_index    = update_inverted_index(self.inverted_index, terms, doc_id),
           !.doc_stats         = [d \in DOMAIN self.doc_stats \cup {doc_id} |->
                                     IF d = doc_id THEN stats ELSE self.doc_stats[d]]]

\* total_doc_lengths is a u32; the sums reached here are far from its width
insert(self, doc, doc_id) ==
    LET terms     == stemmer(tokenize(doc))
        num_terms == Len(terms)
        term_freq == term_frequency(terms)
        stats     == [doc_id |-> doc_id, doc_length |-> num_terms, term_freq |-> term_freq]
    IN  [self EXCEPT
           !.inverted_index    = update_inverted_index(self.inverted_index, terms, doc_id),
           !.doc_stats         = [d \in DOMAIN self.doc_stats \cup {doc_id} |->
                                     IF d = doc_id THEN stats ELSE self.doc_stats[d]],
           !.total_doc_lengths = self.total_doc_lengths + num_terms]

\* delete without line 77
delete_keeps_total(self, doc_id) ==
    IF doc_id \in DOMAIN self.doc_stats
    THEN LET doc == self.doc_stats[doc_id]
         IN  [self EXCEPT
                !.doc_stats         = [d \in DOMAIN self.doc_stats \ {doc_id} |-> self.doc_stats[d]],
                !.inverted_index    = [t \in DOMAIN self.inverted_index |->
                                          IF t \in DOMAIN doc.term_freq
                                          THEN SelectSeq(self.inverted_index[t], LAMBDA id : id # doc_id)
                                          ELSE self.inverted_index[t]]]
    ELSE self

\* delete without the removal of line 76
delete_keeps_entry(self, doc_id) ==
    IF doc_id \in DOMAIN self.doc_stats
    THEN LET doc == self.doc_stats[doc_id]
         IN  [self EXCEPT
                !.total_doc_lengths = self.total_doc_lengths - doc.doc_length,
                !.inverted_index    = [t \in DOMAIN self.inverted_index |->
                                          IF t \in DOMAIN doc.term_freq
                                          THEN SelectSeq(self.inverted_index[t], LAMBDA id : id # doc_id)
                                          ELSE self.inverted_index[t]]]
    ELSE self

\* delete without lines 78-82
delete_keeps_postings(self, doc_id) ==
    IF doc_id \in DOMAIN self.doc_stats
    THEN LET doc == self.doc_stats[doc_id]
         IN  [self EXCEPT
                !.doc_stats         = [d \in DOMAIN self.doc_stats \ {doc_id} |-> self.doc_stats[d]],
                !.total_doc_lengths = self.total_doc_lengths - doc.doc_length]
    ELSE self

delete(self, doc_id) ==
    IF doc_id \in DOMAIN self.doc_stats
    THEN LET doc == self.doc_stats[doc_id]
         IN  [self EXCEPT
                !.doc_stats         = [d \in DOMAIN self.doc_stats \ {doc_id} |-> self.doc_stats[d]],
                !.total_doc_lengths = self.total_doc_lengths - doc.doc_length,
                !.inverted_index    = [t \in DOMAIN self.inverted_index |->
                                          IF t \in DOMAIN doc.term_freq
                                          THEN SelectSeq(self.inverted_index[t], LAMBDA id : id # doc_id)
                                          ELSE self.inverted_index[t]]]
    ELSE self

\* upsert without lines 52-54
upsert_no_delete(self, doc, doc_id) == insert(self, doc, doc_id)

upsert(self, doc, doc_id) ==
    LET s1 == IF doc_id \in DOMAIN self.doc_stats THEN delete(self, doc_id) ELSE self
    IN  insert(s1, doc, doc_id)

(* ------------------------------ scoring --------------------------------- *)
\* ln(n) in millionths, n = 1..40
LnMicro == <<0, 693147, 1098612, 1386294, 1609438, 1791759, 1945910, 2079442,
             2197225, 2302585, 2397895, 2484907, 2564949, 2639057, 2708050,
             2772589, 2833213, 2890372, 2944439, 2995732, 3044522, 3091042,
             3135494, 3178054, 3218876, 3258097, 3295837, 3332205, 3367296,
             3401197, 3433987, 3465736, 3496508, 3526361, 3555348, 3583519,
             3610918, 3637586, 3663562, 3688879>>

\* OrderedFloat puts NaN above every number and equal to itself
NaN == 2^30

\* ((num_docs - doc_freq + 0.5) / (doc_freq + 0.5) + 1.0).ln()
\*   = ln((2*num_docs + 2) / (2*doc_freq + 1))
idf(num_docs, doc_freq) == LnMicro[2 * num_docs + 2] - LnMicro[2 * doc_freq + 1]

\* the term weight with term_freq taken as 1 whatever the count
contribution_ignores_count(self, doc, term) ==
    LET num_docs == Cardinality(DOMAIN self.doc_stats)
        total    == self.total_doc_lengths
        kn == self.k[1]   kd == self.k[2]
        bn == self.b[1]   bd == self.b[2]
        lnn      == kn * ((bd - bn) * total + bn * doc.doc_length * num_docs)
        lnd      == kd * bd * total
    IN  IF total = 0
        THEN IF doc.doc_length = 0 THEN NaN ELSE 0
        ELSE (lnd * idf(num_docs, doc_frequency(self, term))) \div (lnn + lnd)

\* term_freq / (length_norm + term_freq) * idf, where
\*   length_norm = k * ((1 - b) + b * doc_length / avg_doc_length)
\*   avg_doc_length = total_doc_lengths / num_docs
\* With k = kn/kd, b = bn/bd:
\*   length_norm = kn * ((bd - bn) * total + bn * doc_length * num_docs) / (kd * bd * total)
contribution(self, doc, term) ==
    LET num_docs == Cardinality(DOMAIN self.doc_stats)
        total    == self.total_doc_lengths
        kn == self.k[1]   kd == self.k[2]
        bn == self.b[1]   bd == self.b[2]
        f        == doc.term_freq[term]
        lnn      == kn * ((bd - bn) * total + bn * doc.doc_length * num_docs)
        lnd      == kd * bd * total
    IN  IF total = 0
        THEN IF doc.doc_length = 0 THEN NaN ELSE 0
        ELSE (f * lnd * idf(num_docs, doc_frequency(self, term))) \div (lnn + f * lnd)

AddF(x, y) == IF x = NaN \/ y = NaN THEN NaN ELSE x + y

\* the score with a term counted at its first place in the query only
RECURSIVE score_of_distinct(_, _, _)
score_of_distinct(self, doc, query_terms) ==
    IF query_terms = <<>> THEN 0
    ELSE LET n    == Len(query_terms)
             acc  == score_of_distinct(self, doc, SubSeq(query_terms, 1, n - 1))
             term == query_terms[n]
         IN  IF /\ term \in DOMAIN doc.term_freq
                /\ doc_frequency(self, term) > 0
                /\ \A i \in 1..(n - 1) : query_terms[i] # term
             THEN AddF(acc, contribution(self, doc, term))
             ELSE acc

RECURSIVE score_of(_, _, _)
score_of(self, doc, query_terms) ==
    IF query_terms = <<>> THEN 0
    ELSE LET n    == Len(query_terms)
             acc  == score_of(self, doc, SubSeq(query_terms, 1, n - 1))
             term == query_terms[n]
         IN  IF term \in DOMAIN doc.term_freq /\ doc_frequency(self, term) > 0
             THEN AddF(acc, contribution(self, doc, term))
             ELSE acc

(* ------------------------------ search ---------------------------------- *)
RECURSIVE extend_ids(_, _)
extend_ids(self, query_terms) ==
    IF query_terms = <<>> THEN <<>>
    ELSE LET n    == Len(query_terms)
             term == query_terms[n]
         IN  extend_ids(self, SubSeq(query_terms, 1, n - 1)) \o
             (IF term \in DOMAIN self.inverted_index THEN self.inverted_index[term] ELSE <<>>)

sort_unstable(s) == SortSeq(s, LAMBDA x, y : x < y)

RECURSIVE dedup(_)
dedup(s) ==
    IF Len(s) <= 1 THEN s
    ELSE LET r == dedup(Tail(s))
         IN  IF Head(s) = Head(r) THEN r ELSE <<Head(s)>> \o r

\* (score, doc_id) tuples compare lexicographically
PairLess(p, q) == p[1] < q[1] \/ (p[1] = q[1] /\ p[2] < q[2])

\* BinaryHeap<Reverse<(score, doc_id)>>: peek/pop yield the least pair
HeapMin(heap) == CHOOSE p \in heap : \A q \in heap : q = p \/ PairLess(p, q)

\* the heap without its size test of line 121
heap_step_unbounded(heap, top_k, score, doc_id) == heap \cup {<<score, doc_id>>}

\* the heap without the replacement of lines 123-127
heap_step_no_evict(heap, top_k, score, doc_id) ==
    IF Cardinality(heap) < top_k
    THEN heap \cup {<<score, doc_id>>}
    ELSE heap

heap_step(heap, top_k, score, doc_id) ==
    IF Cardinality(heap) < top_k
    THEN heap \cup {<<score, doc_id>>}
    ELSE IF heap # {}
         THEN IF score > HeapMin(heap)[1]
              THEN (heap \ {HeapMin(heap)}) \cup {<<score, doc_id>>}
              ELSE heap
         ELSE heap

RECURSIVE scan(_, _, _, _, _)
scan(self, query_terms, top_k, doc_ids, heap) ==
    IF doc_ids = <<>> THEN heap
    ELSE LET doc_id == Head(doc_ids)
             heap1  == IF doc_id \in DOMAIN self.doc_stats
                       THEN heap_step(heap, top_k,
                                      score_of(self, self.doc_stats[doc_id], query_terms),
                                      doc_id)
                       ELSE heap
         IN  scan(self, query_terms, top_k, Tail(doc_ids), heap1)

\* while let Some(..) = top_k_docs.pop() { results.push(..) }
RECURSIVE drain(_)
drain(heap) ==
    IF heap = {} THEN <<>>
    ELSE <<HeapMin(heap)>> \o drain(heap \ {HeapMin(heap)})

\* search without line 137
reverse_skipped(s) == s

reverse(s) == [i \in 1..Len(s) |-> s[Len(s) + 1 - i]]

candidates(self, query) ==
    dedup(sort_unstable(extend_ids(self, stemmer(tokenize(query)))))

search(self, query, top_k) ==
    LET query_terms == stemmer(tokenize(query))
        doc_ids     == candidates(self, query)
        top_k_docs  == scan(self, query_terms, top_k, doc_ids, {})
    IN  reverse(drain(top_k_docs))

(* ------------------------------ actions --------------------------------- *)
Self == [inverted_index    |-> inverted_index,
         doc_stats         |-> doc_stats,
         total_doc_lengths |-> total_doc_lengths,
         k                 |-> k,
         b                 |-> b]

Become(n) ==
    LET self == n
    IN  /\ inverted_index'    = self.inverted_index
        /\ doc_stats'         = self.doc_stats
        /\ total_doc_lengths' = self.total_doc_lengths
        /\ k'                 = self.k
        /\ b'                 = self.b

Init ==
    /\ inverted_index    = new.inverted_index
    /\ doc_stats         = new.doc_stats
    /\ total_doc_lengths = new.total_doc_lengths
    /\ k                 = new.k
    /\ b                 = new.b
    /\ last    = [op |-> "new"]
    /\ results = <<>>
    /\ before  = new

Upsert(doc, doc_id) ==
    /\ Become(upsert(Self, doc, doc_id))
    /\ last'    = [op |-> "upsert", doc_id |-> doc_id]
    /\ results' = <<>>
    /\ before'  = new

\* insert is private; its callers pass ids that are not indexed
Insert(doc, doc_id) ==
    /\ doc_id \notin DOMAIN doc_stats
    /\ Become(insert(Self, doc, doc_id))
    /\ last'    = [op |-> "insert", doc_id |-> doc_id]
    /\ results' = <<>>
    /\ before'  = Self

Delete(doc_id) ==
    /\ Become(delete(Self, doc_id))
    /\ last'    = [op |-> "delete", doc_id |-> doc_id]
    /\ results' = <<>>
    /\ before'  = new

Search(query, top_k) ==
    /\ UNCHANGED <<inverted_index, doc_stats, total_doc_lengths, k, b>>
    /\ last'    = [op |-> "search", query |-> query, top_k |-> top_k]
    /\ results' = search(Self, query, top_k)
    /\ before'  = new

Next ==
    \/ \E doc \in Texts, doc_id \in DocIds : Upsert(doc, doc_id)
    \/ \E doc \in Texts, doc_id \in DocIds : Insert(doc, doc_id)
    \/ \E doc_id \in DocIds : Delete(doc_id)
    \/ \E query \in Queries, top_k \in TopKs : Search(query, top_k)

Spec == Init /\ [][Next]_vars

(* ------------------ calls with the index cloned first ------------------- *)
\* any text of at most MaxTextLen characters, runs of blanks and leading or
\* trailing blanks included
RawTexts == UNION {[1..m -> Alphabet] : m \in 0..MaxTextLen}

\* two ids give a call on a present id next to one on an absent id
CallIds  == {0, 1}

\* insert and delete are declared without a return type
Unit == "()"
insert_returns(self, doc, doc_id) == Unit
delete_returns(self, doc_id)      == Unit

\* The caller clones the index ahead of every call and keeps the arguments and
\* the value returned.
CallInsert(doc, doc_id) ==
    /\ doc_id \notin DOMAIN doc_stats
    /\ Become(insert(Self, doc, doc_id))
    /\ last'    = [op |-> "insert", doc_id |-> doc_id, doc |-> doc,
                   ret |-> insert_returns(Self, doc, doc_id)]
    /\ results' = <<>>
    /\ before'  = Self

CallDelete(doc_id) ==
    /\ Become(delete(Self, doc_id))
    /\ last'    = [op |-> "delete", doc_id |-> doc_id,
                   ret |-> delete_returns(Self, doc_id)]
    /\ results' = <<>>
    /\ before'  = Self

\* a search that takes the posting lists it reads out of the index
CallSearch_takes(query, top_k) ==
    /\ inverted_index' = [t \in DOMAIN inverted_index |->
                             IF \E i \in 1..Len(stemmer(tokenize(query))) :
                                   stemmer(tokenize(query))[i] = t
                             THEN <<>> ELSE inverted_index[t]]
    /\ UNCHANGED <<doc_stats, total_doc_lengths, k, b>>
    /\ last'    = [op |-> "search", query |-> query, top_k |-> top_k]
    /\ results' = search(Self, query, top_k)
    /\ before'  = Self

\* search borrows the index as &self
CallSearch(query, top_k) ==
    /\ UNCHANGED <<inverted_index, doc_stats, total_doc_lengths, k, b>>
    /\ last'    = [op |-> "search", query |-> query, top_k |-> top_k]
    /\ results' = search(Self, query, top_k)
    /\ before'  = Self

NextCalls ==
    \/ \E doc \in RawTexts, doc_id \in CallIds : CallInsert(doc, doc_id)
    \/ \E doc_id \in CallIds : CallDelete(doc_id)
    \/ \E query \in Queries, top_k \in TopKs : CallSearch(query, top_k)

SpecCalls == Init /\ [][NextCalls]_vars

(* ----------------- insert called for an id that is present -------------- *)
\* insert is private, so only code of the crate can call it for a present id;
\* each such call leaves total_doc_lengths above the sum of the stored lengths
\* for good, and the calls are made while the total stays within MaxTotal.
CallInsertPresent(doc, doc_id) ==
    /\ doc_id \in DOMAIN doc_stats
    /\ total_doc_lengths + Len(tokenize(doc)) <= MaxTotal
    /\ Become(insert(Self, doc, doc_id))
    /\ last'    = [op |-> "insert", doc_id |-> doc_id, doc |-> doc,
                   ret |-> insert_returns(Self, doc, doc_id)]
    /\ results' = <<>>
    /\ before'  = Self

NextPresent ==
    \/ \E doc \in Texts, doc_id \in CallIds : CallInsert(doc, doc_id)
    \/ \E doc \in Texts, doc_id \in CallIds : CallInsertPresent(doc, doc_id)
    \/ \E doc_id \in CallIds : CallDelete(doc_id)

SpecPresent == Init /\ [][NextPresent]_vars

(* --------------------- the documents of the tests ----------------------- *)
Hello_world      == <<"H", "e", "l", "l", "o", " ", "w", "o", "r", "l", "d">>
I_like_like_cats == <<"I", " ", "l", "i", "k", "e", " ", "l", "i", "k", "e", " ",
                      "c", "a", "t", "s">>
I_like_dogs      == <<"I", " ", "l", "i", "k", "e", " ", "d", "o", "g", "s">>
like             == <<"l", "i", "k", "e">>

TestDocs  == {Hello_world, I_like_like_cats, I_like_dogs}
\* the ids of test_insert and of test_search
TestIds   == {0, 1, 2, 123, 456, 789}
TestTopK  == 3

Indexed(doc) ==
    \E d \in DOMAIN doc_stats :
       doc_stats[d].term_freq = term_frequency(stemmer(tokenize(doc)))

\* the three documents go in under distinct ids, in any order, each once
NextTest ==
    \/ \E doc \in TestDocs, doc_id \in TestIds : ~Indexed(doc) /\ Insert(doc, doc_id)
    \/ Search(like, TestTopK)

SpecTest == Init /\ [][NextTest]_vars

(* ------------------- queries that repeat their terms -------------------- *)
Twice(query)  == query \o <<Blank>> \o query
TwiceQueries  == {Twice(query) : query \in Queries \ {<<>>}}

NextTwice ==
    \/ \E doc \in Texts, doc_id \in DocIds : Upsert(doc, doc_id)
    \/ \E doc_id \in DocIds : Delete(doc_id)
    \/ \E query \in TwiceQueries, top_k \in 1..MaxTopK : Search(query, top_k)

SpecTwice == Init /\ [][NextTwice]_vars

(* ------------------------ the Index of main.rs -------------------------- *)
\* main.rs has its own Index with the fields inverted_index and doc_stats only;
\* index_doc and search of that Index are modelled here over the same two
\* variables, total_doc_lengths, k and b staying as Init left them.  In this
\* specification `before` holds what the caller has passed so far: for each doc
\* id given to index_doc, the length and term counts of the text given with it.

\* for term in term_freq.keys() { push doc_id }
index_doc_postings(inv, term_freq, doc_id) ==
    [t \in DOMAIN inv \cup DOMAIN term_freq |->
        IF t \in DOMAIN term_freq
        THEN Append(IF t \in DOMAIN inv THEN inv[t] ELSE <<>>, doc_id)
        ELSE inv[t]]

\* line 61 shadows the parameter: the stats are stored under doc_stats.len()
index_doc(self, doc, doc_id) ==
    LET terms     == stemmer(tokenize(doc))
        num_terms == Len(terms)
        term_freq == term_frequency(terms)
        postings  == index_doc_postings(self.inverted_index, term_freq, doc_id)
        key       == Cardinality(DOMAIN self.doc_stats)
        stats     == [doc_id |-> key, doc_length |-> num_terms, term_freq |-> term_freq]
    IN  [self EXCEPT
           !.inverted_index = postings,
           !.doc_stats      = [d \in DOMAIN self.doc_stats \cup {key} |->
                                  IF d = key THEN stats ELSE self.doc_stats[d]]]

\* score += doc.term_freq.get(term).copied().unwrap_or_default()
RECURSIVE main_score(_, _)
main_score(doc, query_terms) ==
    IF query_terms = <<>> THEN 0
    ELSE (IF Head(query_terms) \in DOMAIN doc.term_freq
          THEN doc.term_freq[Head(query_terms)] ELSE 0)
         + main_score(doc, Tail(query_terms))

\* doc_ids is not deduplicated here, so the heap can hold a pair twice: it is a
\* sequence kept in ascending order, its head the pair peek and pop yield
main_push(heap, p) ==
    LET n == Cardinality({i \in 1..Len(heap) : heap[i] = p \/ PairLess(heap[i], p)})
    IN  SubSeq(heap, 1, n) \o <<p>> \o SubSeq(heap, n + 1, Len(heap))

main_heap_step(heap, top_k, score, doc_id) ==
    IF Len(heap) < top_k
    THEN main_push(heap, <<score, doc_id>>)
    ELSE IF heap # <<>> /\ score > heap[1][1]
         THEN main_push(Tail(heap), <<score, doc_id>>)
         ELSE heap

\* the loop of lines 84-100; unwrap on a missing doc_stats entry panics
RECURSIVE main_scan(_, _, _, _, _)
main_scan(self, query_terms, top_k, doc_ids, heap) ==
    IF doc_ids = <<>> THEN [panicked |-> FALSE, heap |-> heap]
    ELSE IF Head(doc_ids) \notin DOMAIN self.doc_stats
         THEN [panicked |-> TRUE, heap |-> <<>>]
         ELSE main_scan(self, query_terms, top_k, Tail(doc_ids),
                        main_heap_step(heap, top_k,
                                       main_score(self.doc_stats[Head(doc_ids)], query_terms),
                                       Head(doc_ids)))

main_search(self, query, top_k) ==
    LET query_terms == stemmer(tokenize(query))
        doc_ids     == extend_ids(self, query_terms)
        scanned     == main_scan(self, query_terms, top_k, doc_ids, <<>>)
    IN  [panicked |-> scanned.panicked, results |-> reverse(scanned.heap)]

MainIds == {0, 1, 2}

InitMain ==
    /\ inverted_index    = EmptyMap
    /\ doc_stats         = EmptyMap
    /\ total_doc_lengths = new.total_doc_lengths
    /\ k                 = new.k
    /\ b                 = new.b
    /\ last    = [op |-> "new"]
    /\ results = <<>>
    /\ before  = EmptyMap

\* the caller passes each doc id once
IndexDoc(doc, doc_id) ==
    /\ doc_id \notin DOMAIN before
    /\ LET self == index_doc(Self, doc, doc_id)
       IN  /\ inverted_index' = self.inverted_index
           /\ doc_stats'      = self.doc_stats
    /\ UNCHANGED <<total_doc_lengths, k, b>>
    /\ last'    = [op |-> "index_doc", doc_id |-> doc_id]
    /\ results' = <<>>
    /\ before'  = [d \in DOMAIN before \cup {doc_id} |->
                      IF d = doc_id
                      THEN [doc_length |-> Len(tokenize(doc)),
                            term_freq  |-> term_frequency(stemmer(tokenize(doc)))]
                      ELSE before[d]]

MainSearch(query, top_k) ==
    /\ UNCHANGED <<inverted_index, doc_stats, total_doc_lengths, k, b, before>>
    /\ last'    = [op |-> "search", query |-> query, top_k |-> top_k,
                   panicked |-> main_search(Self, query, top_k).panicked]
    /\ results' = main_search(Self, query, top_k).results

NextMain ==
    \/ \E doc \in Texts, doc_id \in MainIds : IndexDoc(doc, doc_id)
    \/ \E query \in Queries, top_k \in TopKs : MainSearch(query, top_k)

SpecMain == InitMain /\ [][NextMain]_vars

(* ------------------------- derived quantities --------------------------- *)
RECURSIVE SumLengths(_, _)
SumLengths(stats, ids) ==
    IF ids = {} THEN 0
    ELSE LET d == CHOOSE x \in ids : TRUE
         IN  stats[d].doc_length + SumLengths(stats, ids \ {d})

Occurs(id, s) == \E i \in 1..Len(s) : s[i] = id

\* the indexed documents whose term_freq has the term
DocsWith(self, term) ==
    {d \in DOMAIN self.doc_stats : term \in DOMAIN self.doc_stats[d].term_freq}

\* the doc ids that occur in the term's posting list
Posted(self, term) ==
    IF term \in DOMAIN self.inverted_index
    THEN {d \in DocIds : Occurs(d, self.inverted_index[term])}
    ELSE {}

\* what a caller can tell two indexes apart by
SameObservable(s, t) ==
    /\ s.doc_stats = t.doc_stats
    /\ s.total_doc_lengths = t.total_doc_lengths
    /\ \A term \in DOMAIN s.inverted_index \cup DOMAIN t.inverted_index :
          /\ doc_frequency(s, term) = doc_frequency(t, term)
          /\ Posted(s, term) = Posted(t, term)
    /\ \A query \in Queries, top_k \in TopKs :
          search(s, query, top_k) = search(t, query, top_k)

(* ------------------------------- claims --------------------------------- *)

\* C1: after any sequence of upsert, insert (of ids not present) and delete,
\* total_doc_lengths is the sum of doc_length over the entries of doc_stats.
C1_TotalIsSumOfLengths ==
    total_doc_lengths = SumLengths(doc_stats, DOMAIN doc_stats)

\* a delete has just removed a document and documents with terms remain
C1_Witness ==
    /\ last.op = "delete"
    /\ last.doc_id \notin DOMAIN doc_stats
    /\ \E term \in DOMAIN inverted_index : inverted_index[term] = <<>>
    /\ total_doc_lengths >= 2
    /\ Cardinality(DOMAIN doc_stats) >= 2

\* C2: for every term, doc_frequency(term) is the number of indexed documents
\* whose term_freq contains the term (a document counts once per term).
C2_DocFrequencyCountsDocuments ==
    \A term \in DOMAIN inverted_index :
        doc_frequency(Self, term) = Cardinality(DocsWith(Self, term))

\* C3: for every term of inverted_index and every doc id, the id occurs in the
\* term's posting list iff doc_stats has the id with the term in its term_freq.
C3_PostingMembership ==
    \A term \in DOMAIN inverted_index :
        Posted(Self, term) = DocsWith(Self, term)

\* an upsert has replaced or followed a removal (some posting list was emptied)
\* while another posting list holds two documents
C3_Witness ==
    /\ last.op = "upsert"
    /\ \E term \in DOMAIN inverted_index : inverted_index[term] = <<>>
    /\ \E term \in DOMAIN inverted_index : Cardinality(Posted(Self, term)) >= 2

\* C4: delete(id) of a present id lowers doc_frequency(term) by exactly 1 for
\* every term of the deleted document and leaves it unchanged for the others.
C4_DeleteLowersFrequencyByOne ==
    [][ (last'.op = "delete" /\ last'.doc_id \in DOMAIN doc_stats) =>
          \A term \in DOMAIN inverted_index :
              doc_frequency(Self', term) =
                 IF term \in DOMAIN doc_stats[last'.doc_id].term_freq
                 THEN doc_frequency(Self, term) - 1
                 ELSE doc_frequency(Self, term) ]_vars

\* C5: upsert(text, id) applied a second time leaves the state the first
\* application produced.  In a state an upsert of doc_id has just produced, the
\* text upserted is one of those whose term counts are the stored term_freq;
\* upserting any of them again leaves the whole index unchanged, hence also
\* doc_stats, total_doc_lengths, the document frequency and posting membership
\* of every term, and every search result.
C5_UpsertIdempotent ==
    last.op = "upsert" =>
       \A doc \in Texts :
          term_frequency(stemmer(tokenize(doc))) = doc_stats[last.doc_id].term_freq =>
             LET twice == upsert(Self, doc, last.doc_id)
             IN  /\ twice.doc_stats = doc_stats
                 /\ twice.total_doc_lengths = total_doc_lengths
                 /\ twice.inverted_index = inverted_index
                 /\ \A query \in Queries, top_k \in TopKs :
                       search(twice, query, top_k) = search(Self, query, top_k)

\* an upsert has just replaced the text of an id among other documents
C5_Witness ==
    /\ last.op = "upsert"
    /\ last.doc_id \in DOMAIN doc_stats
    /\ doc_stats[last.doc_id].doc_length >= 2
    /\ Cardinality(DOMAIN doc_stats) >= 2
    /\ \E term \in DOMAIN inverted_index :
          /\ last.doc_id \notin Posted(Self, term)
          /\ Posted(Self, term) # {}

\* C6: insert(text, id) of an id that is not indexed, followed by delete(id),
\* gives back the observable state before the insert: doc_stats,
\* total_doc_lengths, the document frequency of every term, every search result.
C6_InsertDeleteRoundTrip ==
    last.op = "insert" => SameObservable(delete(Self, last.doc_id), before)

\* an insert has just added a document with a repeated term next to others
C6_Witness ==
    /\ last.op = "insert"
    /\ \E term \in DOMAIN doc_stats[last.doc_id].term_freq :
          /\ doc_stats[last.doc_id].term_freq[term] >= 2
          /\ Cardinality(Posted(Self, term)) >= 2

\* the candidates of a query with the score search gives each
Scored(self, query) ==
    LET ids == candidates(self, query)
    IN  {<<score_of(self, self.doc_stats[ids[i]], stemmer(tokenize(query))), ids[i]>> :
            i \in {j \in 1..Len(ids) : ids[j] \in DOMAIN self.doc_stats}}

Min(x, y) == IF x <= y THEN x ELSE y

Range(s) == {s[i] : i \in 1..Len(s)}

\* C7: search(query, top_k) returns at most top_k results, every returned doc
\* id is a key of doc_stats, and the returned scores are non-increasing.
C7_SearchBounded ==
    last.op = "search" =>
       /\ Len(results) <= last.top_k
       /\ \A i \in 1..Len(results) : results[i][2] \in DOMAIN doc_stats
       /\ \A i \in 1..(Len(results) - 1) : results[i][1] >= results[i + 1][1]

\* a search has cut three candidates down to two results of different score
C7_Witness ==
    /\ last.op = "search"
    /\ Len(candidates(Self, last.query)) > last.top_k
    /\ Len(results) = 2
    /\ results[1][1] > results[2][1]

\* C8 (as claimed): the list search returns is sorted by descending score and,
\* among results of equal score, by ascending doc_id.
C8_TiesAscendingDocId ==
    last.op = "search" =>
       \A i \in 1..(Len(results) - 1) :
          \/ results[i][1] > results[i + 1][1]
          \/ results[i][1] = results[i + 1][1] /\ results[i][2] < results[i + 1][2]

\* C8 (amended): the list search returns is sorted by descending score and,
\* among results of equal score, by descending doc_id.
C8_TiesDescendingDocId ==
    last.op = "search" =>
       \A i \in 1..(Len(results) - 1) :
          \/ results[i][1] > results[i + 1][1]
          \/ results[i][1] = results[i + 1][1] /\ results[i][2] > results[i + 1][2]

\* a search has returned two results of equal score
C8_Witness ==
    /\ last.op = "search"
    /\ \E i \in 1..(Len(results) - 1) : results[i][1] = results[i + 1][1]

\* p comes before q in a full sort by descending score, then ascending doc_id
RanksBefore(p, q) == p[1] > q[1] \/ (p[1] = q[1] /\ p[2] < q[2])

\* the first m pairs of that full sort
SortTruncate(pairs, m) ==
    {p \in pairs : Cardinality({q \in pairs : RanksBefore(q, p)}) < m}

\* C9 (as claimed): the doc ids search returns are those of the first
\* min(top_k, number of candidates) candidates ranked by descending score and,
\* among equal scores, ascending doc_id.
C9_SameAsSortTruncate ==
    last.op = "search" =>
       LET pairs == Scored(Self, last.query)
       IN  {r[2] : r \in Range(results)} =
           {p[2] : p \in SortTruncate(pairs, Min(last.top_k, Cardinality(pairs)))}

\* C9 (amended): search returns min(top_k, number of candidates) candidates,
\* each with its own score, and no candidate left out has a higher score than
\* a returned one.
C9_TopByScore ==
    last.op = "search" =>
       LET pairs == Scored(Self, last.query)
       IN  /\ Len(results) = Min(last.top_k, Cardinality(pairs))
           /\ Range(results) \subseteq pairs
           /\ \A r \in Range(results), p \in pairs \ Range(results) : p[1] <= r[1]

\* a search has left out a candidate whose score equals a returned one's and
\* whose doc id is smaller
C9_Witness ==
    /\ last.op = "search"
    /\ \E r \in Range(results), p \in Scored(Self, last.query) \ Range(results) :
          p[1] = r[1] /\ p[2] < r[2]

\* C10: the list search returns has min(top_k, number of candidates whose score
\* is > 0) entries, and no returned score is zero or negative.
C10_OnlyPositiveScores ==
    last.op = "search" =>
       LET positive == {p \in Scored(Self, last.query) : p[1] > 0}
       IN  /\ Len(results) = Min(last.top_k, Cardinality(positive))
           /\ \A i \in 1..Len(results) : results[i][1] > 0

\* C11: search returns the empty list whenever top_k = 0 or no indexed document
\* holds any term of the query; the empty index and a term whose posting list
\* was emptied by delete are cases of the latter.
C11_EmptyResult ==
    last.op = "search" =>
       LET query_terms == stemmer(tokenize(last.query))
       IN  (\/ last.top_k = 0
            \/ \A i \in 1..Len(query_terms) : DocsWith(Self, query_terms[i]) = {})
           => results = <<>>

\* a search with top_k > 0 for a term whose posting list is still a key of
\* inverted_index but empty, while other documents are indexed
C11_Witness ==
    /\ last.op = "search"
    /\ last.top_k > 0
    /\ doc_stats # EmptyMap
    /\ LET query_terms == stemmer(tokenize(last.query))
       IN  /\ query_terms # <<>>
           /\ \A i \in 1..Len(query_terms) :
                 /\ query_terms[i] \in DOMAIN inverted_index
                 /\ inverted_index[query_terms[i]] = <<>>
    /\ results = <<>>

\* C12: insert called with a doc id that is already present fails with
\* DuplicateDocument and leaves doc_stats, inverted_index and
\* total_doc_lengths as they were.
C12_DuplicateRejected ==
    (last.op = "insert" /\ last.doc_id \in DOMAIN before.doc_stats) =>
       /\ last.ret = "DuplicateDocument"
       /\ Self = before

C14_LikeRanksByCount ==
    (last.op = "search" /\ \A doc \in TestDocs : Indexed(doc)) =>
       /\ Len(results) = 2
       /\ \A i \in 1..Len(results) :
             /\ results[i][2] \in DOMAIN doc_stats
             /\ like \in DOMAIN doc_stats[results[i][2]].term_freq
       /\ doc_stats[results[1][2]].term_freq[like] = 2
       /\ doc_stats[results[2][2]].term_freq[like] = 1
       /\ results[1][1] > results[2][1]

\* search("like", 3) has run over the three documents, stored as 123, 456 and
\* 789 as in test_search, and returned 456 ahead of 789
C14_Witness ==
    /\ last.op = "search"
    /\ DOMAIN doc_stats = {123, 456, 789}
    /\ doc_stats[123].doc_length = 2
    /\ Len(results) = 2
    /\ results[1][2] = 456
    /\ results[2][2] = 789

\* the distinct terms of a query
TermSet(query) == Range(stemmer(tokenize(query)))

TokenStarts(doc) ==
    {i \in 1..Len(doc) : doc[i] # Blank /\ (i = 1 \/ doc[i - 1] = Blank)}

RECURSIVE SumCounts(_)
SumCounts(term_freq) ==
    IF DOMAIN term_freq = {} THEN 0
    ELSE LET t == CHOOSE x \in DOMAIN term_freq : TRUE
         IN  term_freq[t] +
             SumCounts([x \in DOMAIN term_freq \ {t} |-> term_freq[x]])

\* C17: in every doc_stats entry doc_length is the sum of the term_freq counts
\* and every count is at least 1; the entry just inserted has for doc_length
\* the number of whitespace-separated tokens of its text, and a text without
\* tokens gives doc_length 0 and an empty term_freq in an entry that counts as
\* a document.
C17_DocLengthCountsTokens ==
    /\ \A d \in DOMAIN doc_stats :
          /\ doc_stats[d].doc_length = SumCounts(doc_stats[d].term_freq)
          /\ \A t \in DOMAIN doc_stats[d].term_freq : doc_stats[d].term_freq[t] >= 1
    /\ last.op = "insert" =>
          /\ last.doc_id \in DOMAIN doc_stats
          /\ doc_stats[last.doc_id].doc_length = Cardinality(TokenStarts(last.doc))
          /\ Cardinality(DOMAIN doc_stats) = Cardinality(DOMAIN before.doc_stats) + 1
          /\ TokenStarts(last.doc) = {} =>
                /\ doc_stats[last.doc_id].doc_length = 0
                /\ doc_stats[last.doc_id].term_freq = EmptyMap

\* a text of blanks only has been inserted next to a document that holds one
\* term twice
C17_Witness ==
    /\ last.op = "insert"
    /\ last.doc # <<>>
    /\ TokenStarts(last.doc) = {}
    /\ doc_stats[last.doc_id].doc_length = 0
    /\ \E d \in DOMAIN doc_stats :
          \E t \in DOMAIN doc_stats[d].term_freq : doc_stats[d].term_freq[t] = 2

\* how often the term occurs in the indexed documents together
RECURSIVE SumTermFreq(_, _, _)
SumTermFreq(stats, ids, term) ==
    IF ids = {} THEN 0
    ELSE LET d == CHOOSE x \in ids : TRUE
         IN  (IF term \in DOMAIN stats[d].term_freq THEN stats[d].term_freq[term] ELSE 0)
             + SumTermFreq(stats, ids \ {d}, term)

\* C18: insert appends the doc id to a term's posting list once per occurrence
\* of the term in the document, after the ids already there, so the length of
\* a posting list is the sum of term_freq[term] over the indexed documents.
C18_PostingPerOccurrence ==
    /\ \A term \in DOMAIN inverted_index :
          Len(inverted_index[term]) = SumTermFreq(doc_stats, DOMAIN doc_stats, term)
    /\ last.op = "insert" =>
          LET term_freq == doc_stats[last.doc_id].term_freq
          IN  /\ DOMAIN inverted_index = DOMAIN before.inverted_index \cup DOMAIN term_freq
              /\ \A term \in DOMAIN inverted_index :
                    LET old == IF term \in DOMAIN before.inverted_index
                               THEN before.inverted_index[term] ELSE <<>>
                        n   == IF term \in DOMAIN term_freq THEN term_freq[term] ELSE 0
                    IN  inverted_index[term] = old \o [i \in 1..n |-> last.doc_id]

\* a document with a term twice has been inserted after another document with
\* that term, as in test_insert: the posting list ends with the new id twice
C18_Witness ==
    /\ last.op = "insert"
    /\ \E term \in DOMAIN doc_stats[last.doc_id].term_freq :
          /\ doc_stats[last.doc_id].term_freq[term] = 2
          /\ term \in DOMAIN before.inverted_index
          /\ before.inverted_index[term] # <<>>
          /\ Len(inverted_index[term]) = Len(before.inverted_index[term]) + 2

\* C19: whenever search scores a candidate, doc_stats is non-empty and
\* total_doc_lengths is at least 1, so the average length that lengthNorm
\* divides by is a positive number, and no returned score comes from a
\* division by zero.
C19_AverageLengthPositive ==
    last.op = "search" =>
       /\ (\E d \in Range(candidates(Self, last.query)) : d \in DOMAIN doc_stats) =>
             /\ Cardinality(DOMAIN doc_stats) >= 1
             /\ total_doc_lengths >= 1
       /\ \A i \in 1..Len(results) : results[i][1] # NaN

\* a search has scored a candidate while a document without tokens is indexed
C19_Witness ==
    /\ last.op = "search"
    /\ \E d \in Range(candidates(Self, last.query)) : d \in DOMAIN doc_stats
    /\ results # <<>>
    /\ \E d \in DOMAIN doc_stats : doc_stats[d].doc_length = 0

\* C20: in main.rs, after index_doc calls with distinct caller-chosen ids,
\* every doc id in a posting list is a key of doc_stats whose entry holds the
\* stats of the document passed with that id, and search never fails on a
\* missing doc_stats entry.
C20_StatsUnderCallerId ==
    /\ \A term \in DOMAIN inverted_index :
          \A i \in 1..Len(inverted_index[term]) :
             LET doc_id == inverted_index[term][i]
             IN  /\ doc_id \in DOMAIN doc_stats
                 /\ doc_stats[doc_id].term_freq  = before[doc_id].term_freq
                 /\ doc_stats[doc_id].doc_length = before[doc_id].doc_length
    /\ last.op = "search" => ~last.panicked

====
